---- MODULE Spec2Model ----
(***************************************************************************)
(* Model of the stock anomaly monitor: AnomalyDetector (rolling z-score    *)
(* and isolation-forest detection with its model cache), DataFetcher's     *)
(* validation, StockMonitor.update_history and the StockMonitor.monitor    *)
(* polling loop.                                                           *)
(*                                                                         *)
(* Prices are integers and the statistics are kept exact: for a window of  *)
(* n prices with sum S and sum of squares Q,                               *)
(*     mean = S / n,   std = sqrt(n*Q - S*S) / n,                          *)
(*     z    = (n*p - S) / sqrt(n*Q - S*S).                                 *)
(* A timestamp is the position of a bar in the day's series (the fetch     *)
(* asks for period='1d', so row i of every batch carries the i-th          *)
(* timestamp of the day).                                                  *)
(***************************************************************************)
EXTENDS Integers, Sequences, FiniteSets, TLC

VARIABLES
    window_size,        \* AnomalyDetector.window_size
    threshold,          \* AnomalyDetector.threshold
    models,             \* AnomalyDetector.models: model key -> model
    fits,               \* log of the fit calls made: key, model left in the cache, prices of the call
    history,            \* StockMonitor.history: ticker -> rows
    merged,             \* per ticker, the timestamps handed to update_history so far
    idx,                \* position of the for loop in STOCKS_TO_MONITOR
    steps,              \* loop iterations (or direct calls) made so far
    attempted,          \* tickers attempted in the current polling cycle, with how each ended
    ticker,             \* ticker of the last iteration
    data,               \* what fetch_stock_data returned in the last iteration
    outcome,            \* how the last iteration (or call) ended
    zscore_results,     \* detect(data, 'zscore') of the last iteration
    isolation_results,  \* detect(data, 'isolation') of the last iteration
    alerts,             \* rows handed to console_alert in the last iteration
    anomalies,          \* flag array returned by the last direct z_score_detection call
    new_data            \* argument of the last direct update_history call

vars ==
    <<window_size, threshold, models, fits, history, merged, idx, steps, attempted,
      ticker, data, outcome, zscore_results, isolation_results, alerts, anomalies,
      new_data>>

(***************************************************************************)
(* Bounds                                                                  *)
(***************************************************************************)
MaxWindow ==
    2

MaxThreshold ==
    1

MaxLen ==
    4

MaxPrice ==
    3

MaxSteps ==
    3

MaxMerges ==
    2

MaxRows ==
    2

STOCKS_TO_MONITOR ==
    <<"AAPL", "MSFT">>

Tickers ==
    {STOCKS_TO_MONITOR[i] : i \in 1..Len(STOCKS_TO_MONITOR)}

Prices ==
    1..MaxPrice

\* The closes the data source serves to the polling loop.
FeedPrices ==
    {1, 2}

RECURSIVE SeqsUpTo(_, _)
SeqsUpTo(S, n) ==
    IF n = 0 THEN {<<>>}
    ELSE LET shorter == SeqsUpTo(S, n - 1)
         IN shorter \cup {Append(s, x) : s \in {t \in shorter : Len(t) = n - 1}, x \in S}

(***************************************************************************)
(* Values: None, DataFrames                                                *)
(***************************************************************************)
None ==
    [kind |-> "None", rows |-> <<>>]

NotRun ==
    [kind |-> "not_run", rows |-> <<>>]

Frame(rows) ==
    [kind |-> "frame", rows |-> rows]

NaN ==
    <<>>

RECURSIVE Sum(_)
Sum(s) ==
    IF s = <<>> THEN 0 ELSE Head(s) + Sum(Tail(s))

RECURSIVE SumSq(_)
SumSq(s) ==
    IF s = <<>> THEN 0 ELSE Head(s) * Head(s) + SumSq(Tail(s))

\* np.mean(window), as the pair <<sum, n>> standing for sum / n.
Mean(window) ==
    <<Sum(window), Len(window)>>

\* n*n times the population variance of the window.
ScaledVar(window) ==
    Len(window) * SumSq(window) - Sum(window) * Sum(window)

\* np.std(window), as the pair <<v, n>> standing for sqrt(v) / n.
Std(window) ==
    <<ScaledVar(window), Len(window)>>

(***************************************************************************)
(* AnomalyDetector                                                         *)
(***************************************************************************)
\* The window prices[i-window_size : i] of the loop index i (0-based in the code);
\* k = i + 1 is the same position counted from 1.
Window(prices, w, k) ==
    SubSeq(prices, k - w, k - 1)

\* z_score of position k: 0 when std == 0, else (prices[i] - mean) / std, kept as
\* num / sqrt(var).
ZScore(prices, w, k) ==
    LET window == Window(prices, w, k)
    IN IF ScaledVar(window) = 0
       THEN [num |-> 0, var |-> 1]
       ELSE [num |-> w * prices[k] - Sum(window), var |-> ScaledVar(window)]

\* abs(z_score) > threshold
AbsExceedsStrict(z, t) ==
    t < 0 \/ z.num * z.num > t * t * z.var

\* >= for >.
AbsExceedsOrEqual(z, t) ==
    t <= 0 \/ z.num * z.num >= t * t * z.var

AbsExceeds(z, t) ==
    AbsExceedsStrict(z, t)

\* range(self.window_size, len(prices)), counted from 1
EvaluatedFrom(w) ==
    w + 1

z_score_detection(prices, w, t) ==
    LET evaluated(k) == k >= EvaluatedFrom(w)
    IN [anomalies |-> [k \in 1..Len(prices) |->
                         IF evaluated(k) /\ AbsExceeds(ZScore(prices, w, k), t) THEN 1 ELSE 0],
        means     |-> [k \in 1..Len(prices) |->
                         IF evaluated(k) THEN Mean(Window(prices, w, k)) ELSE <<0, 1>>],
        stds      |-> [k \in 1..Len(prices) |->
                         IF evaluated(k) THEN Std(Window(prices, w, k)) ELSE <<0, 1>>]]

\* np.zeros_like(prices)
Zeros(prices) ==
    [k \in 1..Len(prices) |-> 0]

\* tuple(prices[:self.window_size])
ModelKey(prices, w) ==
    SubSeq(prices, 1, w)

\* What IsolationForest(contamination=0.05).fit may do: raise, or leave a fitted
\* model. A fitted model labels a sample by its value alone, so it is the set of
\* prices it calls outliers; which set is left to the forest's random trees, except
\* that the offset sits at the 5th percentile of the scores, so never every price.
FitOutcomes(P) ==
    {[fitted |-> FALSE, outliers |-> {}]}
        \cup {[fitted |-> TRUE, outliers |-> o] : o \in (SUBSET P) \ {P}}

\* (preds == -1).astype(int)
Predict(model, prices) ==
    [k \in 1..Len(prices) |-> IF prices[k] \in model.outliers THEN 1 ELSE 0]

\* The length check left out.
NeverTooShortForIsolation(prices, w) ==
    FALSE

\* len(prices) < self.window_size * 2
TooShortForIsolation(prices, w) ==
    Len(prices) < w * 2

\* The cache lookup left out.
AlwaysNeedsFit(cache, key) ==
    TRUE

\* model_key not in self.models
NeedsFit(cache, key) ==
    key \notin DOMAIN cache

\* self.models[model_key] = IsolationForest(...): the entry is stored before fit
\* runs, so it is there whether fit returns or raises.
Store(cache, key, model) ==
    [k \in DOMAIN cache \cup {key} |-> IF k = key THEN model ELSE cache[k]]

\* preds = self.models[model_key].predict(X): predict raises NotFittedError on the
\* entry a failed fit left, and a fit that raises never reaches it.
PredictWith(prices, key, cache, log) ==
    IF cache[key].fitted
    THEN [raised |-> FALSE, anomalies |-> Predict(cache[key], prices),
          models |-> cache, fits |-> log]
    ELSE [raised |-> TRUE, anomalies |-> <<>>, models |-> cache, fits |-> log]

\* isolation_forest_detection with the cache and the fit log threaded through;
\* fit is what the fit call does if it is reached.
isolation_forest_detection(prices, w, cache, log, fit) ==
    IF TooShortForIsolation(prices, w)
    THEN [raised |-> FALSE, anomalies |-> Zeros(prices), models |-> cache, fits |-> log]
    ELSE IF NeedsFit(cache, ModelKey(prices, w))
    THEN PredictWith(prices, ModelKey(prices, w),
                     Store(cache, ModelKey(prices, w), fit),
                     Append(log, [key |-> ModelKey(prices, w), model |-> fit,
                                  prices |-> prices]))
    ELSE PredictWith(prices, ModelKey(prices, w), cache, log)

\* The rows detect builds from the flag array.
RECURSIVE ResultRows(_, _, _, _, _)
ResultRows(prices, flags, stats, method, k) ==
    IF k > Len(prices) THEN <<>>
    ELSE LET rest == ResultRows(prices, flags, stats, method, k + 1)
         IN IF flags[k] # 0
            THEN <<[Time    |-> k,
                    Close   |-> prices[k],
                    Mean    |-> IF method = "zscore" THEN stats.means[k] ELSE NaN,
                    Std     |-> IF method = "zscore" THEN stats.stds[k] ELSE NaN,
                    Method  |-> method,
                    Anomaly |-> TRUE]>> \o rest
            ELSE rest

\* return pd.DataFrame(results) of the z-score branch
ZScoreFrame(prices, z, cache, log) ==
    [raised |-> FALSE, result |-> Frame(ResultRows(prices, z.anomalies, z, "zscore", 1)),
     models |-> cache, fits |-> log]

\* return pd.DataFrame(results) of the isolation branch, unless the detection raised
IsolationFrame(prices, f) ==
    IF f.raised
    THEN [raised |-> TRUE, result |-> NotRun, models |-> f.models, fits |-> f.fits]
    ELSE [raised |-> FALSE,
          result |-> Frame(ResultRows(prices, f.anomalies, f, "isolation", 1)),
          models |-> f.models, fits |-> f.fits]

\* detect(data, method): None below window_size rows, else the frame of flagged rows.
detect(d, method, w, t, cache, log, fit) ==
    IF Len(d.rows) < w
    THEN [raised |-> FALSE, result |-> None, models |-> cache, fits |-> log]
    ELSE IF method = "zscore"
    THEN ZScoreFrame(d.rows, z_score_detection(d.rows, w, t), cache, log)
    ELSE IsolationFrame(d.rows, isolation_forest_detection(d.rows, w, cache, log, fit))

(***************************************************************************)
(* DataFetcher                                                             *)
(***************************************************************************)
\* The None and empty tests left out.
AcceptAnyData(d) ==
    TRUE

\* validate_data: False for None and for an empty frame. fetch_stock_data returns
\* data[['Close']], so the 'Close' column is always there.
validate_data(d) ==
    ~(d.kind = "None" \/ d.rows = <<>>)

(***************************************************************************)
(* StockMonitor.update_history                                             *)
(***************************************************************************)
\* DataFrame.drop_duplicates(subset=['Time']): the first row of each Time is kept.
RECURSIVE DropDuplicates(_, _)
DropDuplicates(rows, seen) ==
    IF rows = <<>> THEN <<>>
    ELSE IF Head(rows).Time \in seen
         THEN DropDuplicates(Tail(rows), seen)
         ELSE <<Head(rows)>> \o DropDuplicates(Tail(rows), seen \cup {Head(rows).Time})

\* drop_duplicates left out.
KeepDuplicates(rows, seen) ==
    rows

Deduplicated(rows, seen) ==
    DropDuplicates(rows, seen)

\* update_history on one ticker's stored rows
update_history(stored, frame) ==
    IF frame.kind = "frame" /\ frame.rows # <<>>
    THEN Deduplicated(stored \o frame.rows, {})
    ELSE stored

Times(rows) ==
    {rows[k].Time : k \in 1..Len(rows)}

(***************************************************************************)
(* StockMonitor.monitor                                                    *)
(***************************************************************************)
\* The batches the data source serves to the polling loop in this model: closes
\* over FeedPrices, shorter than a window, between one and two windows, and two
\* windows or more, in pairs that share their leading prices and differ in their
\* tail.
Feed ==
    { <<2>>,
      <<1, 2, 2>>,
      <<1, 2, 1, 2>>,
      <<1, 2, 2, 1>>,
      <<2, 1, 2, 2, 1, 2>>,
      <<2, 1, 2, 1, 1, 1>> }

\* The alert of one result frame: console_alert of its last row, then
\* send_email_alert, which catches its own failures.
AlertsOf(tk, frame) ==
    IF frame.kind = "frame" /\ frame.rows # <<>>
    THEN <<[ticker |-> tk, row |-> frame.rows[Len(frame.rows)]]>>
    ELSE <<>>

\* A failed fetch ending the pass over the tickers (break for continue).
AbortCycleOnFetchFailure(i, out) ==
    IF out \in {"fetch_failed", "no_data"} THEN Len(STOCKS_TO_MONITOR) + 1 ELSE i + 1

\* The for loop goes to the next ticker after `continue`, after the except clause
\* and after a complete body alike.
AfterIteration(i, out) ==
    i + 1

\* The iteration ended before any detector result was used.
Skipped(tk, out) ==
    [outcome |-> out, zscore_results |-> NotRun, isolation_results |-> NotRun,
     models |-> models, fits |-> fits, stored |-> history[tk], merged |-> merged[tk],
     alerts |-> <<>>]

\* The alerts, after both update_history calls left `stored`: console_alert raises
\* when its prints fail, and the except clause ends the iteration.
ProcessAlerts(tk, print_ok, z, i, stored, al) ==
    [outcome |-> IF al # <<>> /\ ~print_ok THEN "alert_raised" ELSE "processed",
     zscore_results |-> z.result, isolation_results |-> i.result,
     models |-> i.models, fits |-> i.fits, stored |-> stored,
     merged |-> merged[tk] \cup Times(z.result.rows) \cup Times(i.result.rows),
     alerts |-> IF print_ok THEN al ELSE <<>>]

\* After both detect calls: an exception of the isolation detect skips the merges
\* and the alerts; otherwise both results are merged, then alerted.
UpdateAndAlert(tk, print_ok, z, i) ==
    IF i.raised
    THEN [outcome |-> "detector_raised",
          zscore_results |-> z.result, isolation_results |-> NotRun,
          models |-> i.models, fits |-> i.fits, stored |-> history[tk],
          merged |-> merged[tk], alerts |-> <<>>]
    ELSE ProcessAlerts(tk, print_ok, z, i,
                       update_history(update_history(history[tk], z.result), i.result),
                       AlertsOf(tk, z.result) \o AlertsOf(tk, i.result))

\* isolation_results = self.detector.detect(data, method='isolation')
DetectIsolation(tk, d, fit, print_ok, z) ==
    UpdateAndAlert(tk, print_ok, z,
                   detect(d, "isolation", window_size, threshold, z.models, z.fits, fit))

\* One pass of the body of `for ticker in STOCKS_TO_MONITOR` for ticker tk:
\* d is what fetch_stock_data returns (None when the request raised), fit is what
\* a fit call does if one is reached, print_ok is whether console_alert's prints
\* succeed.
Iteration(tk, d, fit, print_ok) ==
    IF ~validate_data(d)
    THEN Skipped(tk, IF d.kind = "None" THEN "fetch_failed" ELSE "no_data")
    ELSE IF d.kind = "None"
    THEN \* len(None) raises in detect
         Skipped(tk, "detector_raised")
    ELSE DetectIsolation(tk, d, fit, print_ok,
                         detect(d, "zscore", window_size, threshold, models, fits, fit))

\* The state an iteration on ticker tk leaves, r being what Iteration computed.
Commit(tk, d, r) ==
    /\ ticker' = tk
    /\ data' = d
    /\ outcome' = r.outcome
    /\ zscore_results' = r.zscore_results
    /\ isolation_results' = r.isolation_results
    /\ alerts' = r.alerts
    /\ models' = r.models
    /\ fits' = r.fits
    /\ history' = [history EXCEPT ![tk] = r.stored]
    /\ merged' = [merged EXCEPT ![tk] = r.merged]
    /\ attempted' = Append(attempted, [ticker |-> tk, outcome |-> r.outcome])
    /\ idx' = AfterIteration(idx, r.outcome)

\* One loop iteration on what the data source returned.
Step(d, fit, print_ok) ==
    /\ steps < MaxSteps
    /\ idx <= Len(STOCKS_TO_MONITOR)
    /\ Commit(STOCKS_TO_MONITOR[idx], d,
              Iteration(STOCKS_TO_MONITOR[idx], d, fit, print_ok))
    /\ steps' = steps + 1
    /\ UNCHANGED <<window_size, threshold, anomalies, new_data>>

\* A fit call that raises leaves the entry unfitted.
FitRaises ==
    [fitted |-> FALSE, outliers |-> {}]

\* Whether detect(d, 'isolation') reaches the fit call with this cache.
ReachesFit(d, w, cache) ==
    /\ Len(d) >= w
    /\ ~TooShortForIsolation(d, w)
    /\ NeedsFit(cache, ModelKey(d, w))

\* The fitted models a batch's fit call may leave (one stand-in when no fit is reached).
Fitted(d, w, cache, P) ==
    IF ReachesFit(d, w, cache)
    THEN FitOutcomes(P) \ {FitRaises}
    ELSE {[fitted |-> TRUE, outliers |-> {}]}

\* The request raised: fetch_stock_data prints and returns None.
FetchFails ==
    Step(None, FitRaises, TRUE)

\* The data source returned no rows.
NoData ==
    Step(Frame(<<>>), FitRaises, TRUE)

\* Both detectors returned, the results were merged and the alerts went out.
Processed ==
    \E d \in Feed :
        \E fit \in Fitted(d, window_size, models, FeedPrices) :
            Step(Frame(d), fit, TRUE) /\ outcome' = "processed"

\* The isolation detector raised (fit raised, or predict met the unfitted entry an
\* earlier failed fit left); the except clause logged it.
DetectorRaises ==
    \E d \in Feed :
        Step(Frame(d), FitRaises, TRUE) /\ outcome' = "detector_raised"

\* console_alert raised after the merge; the except clause logged it.
AlertRaises ==
    \E d \in Feed :
        \E fit \in Fitted(d, window_size, models, FeedPrices) :
            Step(Frame(d), fit, FALSE) /\ outcome' = "alert_raised"

\* time.sleep(CHECK_INTERVAL) at the end of a pass over STOCKS_TO_MONITOR
Sleep ==
    /\ idx = Len(STOCKS_TO_MONITOR) + 1
    /\ idx' = 1
    /\ attempted' = <<>>
    /\ outcome' = "sleep"
    /\ UNCHANGED <<window_size, threshold, models, fits, history, merged, steps, ticker,
                   data, zscore_results, isolation_results, alerts, anomalies, new_data>>

\* StockMonitor.__init__, with the configured window size and threshold
Init ==
    /\ window_size \in 1..MaxWindow
    /\ threshold \in 0..MaxThreshold
    /\ models = <<>>
    /\ fits = <<>>
    /\ history = [tk \in Tickers |-> <<>>]
    /\ merged = [tk \in Tickers |-> {}]
    /\ idx = 1
    /\ steps = 0
    /\ attempted = <<>>
    /\ ticker = "-"
    /\ data = None
    /\ outcome = "init"
    /\ zscore_results = NotRun
    /\ isolation_results = NotRun
    /\ alerts = <<>>
    /\ anomalies = <<>>
    /\ new_data = NotRun

Next ==
    \/ FetchFails
    \/ NoData
    \/ Processed
    \/ DetectorRaises
    \/ AlertRaises
    \/ Sleep

Spec ==
    Init /\ [][Next]_vars

(***************************************************************************)
(* Direct calls of the detector on every bounded price sequence            *)
(***************************************************************************)
\* An AnomalyDetector(window_size, threshold) with an empty cache, and a price
\* sequence about to be handed to it.
InitDetect ==
    /\ window_size \in 1..MaxWindow
    /\ threshold \in (0 - 1)..MaxThreshold
    /\ data \in {Frame(p) : p \in SeqsUpTo(Prices, MaxLen)}
    /\ outcome = "input"
    /\ models = <<>>
    /\ fits = <<>>
    /\ history = [tk \in Tickers |-> <<>>]
    /\ merged = [tk \in Tickers |-> {}]
    /\ idx = 1
    /\ steps = 0
    /\ attempted = <<>>
    /\ ticker = "-"
    /\ zscore_results = NotRun
    /\ isolation_results = NotRun
    /\ alerts = <<>>
    /\ anomalies = <<>>
    /\ new_data = NotRun

\* anomalies, means, stds = detector.z_score_detection(prices)
CallZScoreDetection ==
    /\ outcome = "input"
    /\ anomalies' = z_score_detection(data.rows, window_size, threshold).anomalies
    /\ outcome' = "z_score_detection"
    /\ steps' = steps + 1
    /\ UNCHANGED <<window_size, threshold, models, fits, history, merged, idx, attempted,
                   ticker, data, zscore_results, isolation_results, alerts, new_data>>

\* detector.detect(data, method='zscore')
CallDetectZScore ==
    /\ outcome = "input"
    /\ zscore_results' =
          detect(data, "zscore", window_size, threshold, models, fits, FitRaises).result
    /\ outcome' = "detect_zscore"
    /\ steps' = steps + 1
    /\ UNCHANGED <<window_size, threshold, models, fits, history, merged, idx, attempted,
                   ticker, data, isolation_results, alerts, anomalies, new_data>>

\* What a direct detect(data, method='isolation') call leaves.
Returned(r) ==
    /\ isolation_results' = r.result
    /\ models' = r.models
    /\ fits' = r.fits
    /\ outcome' = IF r.raised THEN "detect_isolation_raised" ELSE "detect_isolation"

\* detector.detect(data, method='isolation')
CallDetectIsolation ==
    /\ outcome = "input"
    /\ \E fit \in Fitted(data.rows, window_size, models, Prices) \cup {FitRaises} :
          Returned(detect(data, "isolation", window_size, threshold, models, fits, fit))
    /\ steps' = steps + 1
    /\ UNCHANGED <<window_size, threshold, history, merged, idx, attempted, ticker, data,
                   zscore_results, alerts, anomalies, new_data>>

NextDetect ==
    \/ CallZScoreDetection
    \/ CallDetectZScore
    \/ CallDetectIsolation

SpecDetect ==
    InitDetect /\ [][NextDetect]_vars

(***************************************************************************)
(* Direct calls of update_history                                          *)
(***************************************************************************)
\* A row of a result frame.
Row(t, close) ==
    [Time |-> t, Close |-> close, Mean |-> NaN, Std |-> NaN, Method |-> "isolation",
     Anomaly |-> TRUE]

\* The result frames over the timestamps 1..n: every choice of flagged timestamps,
\* in ascending order as detect builds them, with every choice of closes.
RECURSIVE RowSeqs(_)
RowSeqs(n) ==
    IF n = 0 THEN {<<>>}
    ELSE LET shorter == RowSeqs(n - 1)
         IN shorter \cup {Append(r, Row(n, c)) : r \in shorter, c \in FeedPrices}

Frames ==
    {None} \cup {Frame(r) : r \in RowSeqs(MaxRows)}

\* monitor.update_history(ticker, new_data)
CallUpdateHistory ==
    /\ steps < MaxMerges
    /\ \E tk \in Tickers, frame \in Frames :
          /\ ticker' = tk
          /\ new_data' = frame
          /\ history' = [history EXCEPT ![tk] = update_history(history[tk], frame)]
          /\ merged' = [merged EXCEPT ![tk] = merged[tk] \cup Times(frame.rows)]
    /\ outcome' = "update_history"
    /\ steps' = steps + 1
    /\ UNCHANGED <<window_size, threshold, models, fits, idx, attempted, data,
                   zscore_results, isolation_results, alerts, anomalies>>

NextMerge ==
    CallUpdateHistory

SpecMerge ==
    Init /\ [][NextMerge]_vars

(***************************************************************************)
(* Claims                                                                  *)
(***************************************************************************)
IterationOutcomes ==
    {"fetch_failed", "no_data", "processed", "detector_raised", "alert_raised"}

\* C1: after any sequence of history merges, a ticker's stored series holds exactly
\* the timestamps merged so far, each once, in ascending timestamp order.
C1_SeriesSortedUnion ==
    \A tk \in Tickers :
        /\ Times(history[tk]) = merged[tk]
        /\ \A j, k \in 1..Len(history[tk]) :
              j < k => history[tk][j].Time < history[tk][k].Time

\* C2: after a valid batch was processed, every timestamp of the batch is in the
\* ticker's stored series, whether or not an anomaly was found.
C2_BatchMerged ==
    outcome = "processed" =>
        \A k \in 1..Len(data.rows) : k \in Times(history[ticker])

\* C3: fit runs at most once per model key, and every key that was fitted is still
\* cached with the model that fit call left: never removed, never refitted.
C3_FitOncePerKey ==
    /\ \A j, k \in 1..Len(fits) : fits[j].key = fits[k].key => j = k
    /\ \A j \in 1..Len(fits) :
          /\ fits[j].key \in DOMAIN models
          /\ models[fits[j].key] = fits[j].model
    /\ DOMAIN models = {fits[j].key : j \in 1..Len(fits)}

\* A batch went through the isolation detector on a model that an earlier call,
\* with the same leading window and another tail, had fitted.
C3_Witness ==
    /\ outcome = "processed"
    /\ Len(data.rows) >= 2 * window_size
    /\ \E j \in 1..Len(fits) :
          /\ fits[j].key = ModelKey(data.rows, window_size)
          /\ fits[j].prices # data.rows
          /\ fits[j].model.fitted

\* The sum of (n*x - S)^2 over the window: n^3 times its population variance.
RECURSIVE C4_ScaledSquares(_, _, _)
C4_ScaledSquares(window, n, S) ==
    IF window = <<>> THEN 0
    ELSE (n * Head(window) - S) * (n * Head(window) - S)
            + C4_ScaledSquares(Tail(window), n, S)

\* Position k (index k - 1 of the code) is at or past window_size, the population
\* standard deviation of the window before it is non-zero, and
\* abs(prices[k] - mean) / stddev > t.
C4_ShouldFlag(prices, w, t, k) ==
    /\ k - 1 >= w
    /\ LET window == SubSeq(prices, k - w, k - 1)
           S      == Sum(window)
           V      == C4_ScaledSquares(window, w, S)
       IN /\ V # 0
          /\ \/ t < 0
             \/ (w * prices[k] - S) * (w * prices[k] - S) * w > t * t * V

C5_LaterRaises(cache, d, fit) ==
    detect(Frame(d), "isolation", window_size, threshold, cache, <<>>, fit).raised

\* C5: an iteration that fails for one ticker leaves every other ticker's stored
\* series as it was, and leaves the model cache such that no later isolation
\* detection of another ticker's batch raises where it would not have raised on the
\* cache before the failure.
C5_FailureIsolated ==
    [][(steps' = steps + 1 /\ outcome' \in IterationOutcomes \ {"processed"}) =>
          /\ \A y \in Tickers \ {ticker'} : history'[y] = history[y]
          /\ \A d \in Feed, fit \in FitOutcomes(FeedPrices) :
                C5_LaterRaises(models', d, fit) => C5_LaterRaises(models, d, fit)]_vars

\* C6: when one detector raises, the other detector has still run on the batch, its
\* flagged points are in the stored series and alerted, and the loop goes on to
\* the next ticker.
C6_OtherDetectorSurvives ==
    outcome = "detector_raised" =>
        /\ zscore_results # NotRun
        /\ Times(zscore_results.rows) \subseteq Times(history[ticker])
        /\ (zscore_results.rows # <<>> =>
              \E a \in 1..Len(alerts) :
                  alerts[a].row = zscore_results.rows[Len(zscore_results.rows)])
        /\ idx = Len(attempted) + 1

\* C7: in a polling cycle the tickers of STOCKS_TO_MONITOR are attempted once each,
\* in order, whatever the outcome of the earlier ones: the tickers attempted so far
\* are the ones before the loop position, and the cycle ends only after the last.
C7_EveryTickerAttempted ==
    /\ idx \in 1..(Len(STOCKS_TO_MONITOR) + 1)
    /\ Len(attempted) = idx - 1
    /\ \A k \in 1..Len(attempted) : attempted[k].ticker = STOCKS_TO_MONITOR[k]

\* A cycle whose first ticker's fetch failed and whose last ticker was processed.
C7_Witness ==
    /\ idx = Len(STOCKS_TO_MONITOR) + 1
    /\ attempted[1].outcome \in {"fetch_failed", "no_data"}
    /\ attempted[Len(STOCKS_TO_MONITOR)].outcome = "processed"

\* C8: calling update_history again with the batch it was just called with leaves
\* the stored series as the first call left it, in content and order.
C8_MergeIdempotent ==
    outcome = "update_history" =>
        update_history(history[ticker], new_data) = history[ticker]

\* A merge of a batch that overlaps the stored series: a stored row was kept over
\* the batch's row of the same timestamp, and another batch row was stored.
C8_Witness ==
    /\ outcome = "update_history"
    /\ \E k \in 1..Len(history[ticker]) :
          /\ history[ticker][k].Time \in Times(new_data.rows)
          /\ \A j \in 1..Len(new_data.rows) : new_data.rows[j] # history[ticker][k]
    /\ \E j \in 1..Len(new_data.rows), k \in 1..Len(history[ticker]) :
          new_data.rows[j] = history[ticker][k]

\* C9: detect(method='zscore') flags nothing below window_size prices, and
\* detect(method='isolation') flags nothing and raises nothing below
\* 2 * window_size prices.
C9_InsufficientData ==
    /\ ((outcome = "detect_zscore" /\ Len(data.rows) < window_size) =>
          zscore_results.rows = <<>>)
    /\ ((outcome \in {"detect_isolation", "detect_isolation_raised"}
            /\ Len(data.rows) < 2 * window_size) =>
          (outcome = "detect_isolation" /\ isolation_results.rows = <<>>))

\* An isolation detect on at least one window and fewer than two.
C9_Witness ==
    /\ outcome = "detect_isolation"
    /\ Len(data.rows) >= window_size
    /\ Len(data.rows) < 2 * window_size

\* C10: an iteration on a missing or empty batch runs no detector, emits no alert
\* and leaves the stored series and the model cache as they were.
C10_EmptyBatchIsNoOp ==
    [][(steps' = steps + 1 /\ (data'.kind = "None" \/ data'.rows = <<>>)) =>
          /\ zscore_results' = NotRun
          /\ isolation_results' = NotRun
          /\ alerts' = <<>>
          /\ history' = history
          /\ merged' = merged
          /\ models' = models
          /\ fits' = fits]_vars

\* An empty batch arrived for a ticker that has stored rows, with models cached.
C10_Witness ==
    /\ outcome = "no_data"
    /\ history[ticker] # <<>>
    /\ DOMAIN models # {}

\* C11: every model held in the cache has completed fitting: a fit that failed for
\* a key leaves no entry under that key, so a later call with the same leading
\* window comes to the fit again instead of predicting with an unfitted model.
C11_CachedModelsFitted ==
    /\ \A key \in DOMAIN models : models[key].fitted
    /\ \A j \in 1..Len(fits) :
          ~fits[j].model.fitted => NeedsFit(models, fits[j].key)

====
